---------------------------- MODULE Spec2Model ----------------------------
(***************************************************************************)
(* A model of src/main.rs of aws-sdk-rust-codegen: the botocore model      *)
(* types, the HttpBindingsTemp -> HttpBindings conversion, the serde       *)
(* decoding of the closed enumerations, and the shape resolver `resolve`.  *)
(***************************************************************************)
EXTENDS Integers, Sequences, FiniteSets, TLC

VARIABLES
    shapes,     \* the shapes table handed to resolve by shared reference
    model0,     \* the shapes table as the Model was built (history)
    pc,         \* per caller: where its resolve invocation stands
    op,         \* per caller: the Operation moved into resolve
    res,        \* per caller: the ResolvedOperation fields evaluated so far
    looked,     \* per caller: the keys looked up so far, in order (history)
    seen,       \* per caller: how its earlier calls ended (history)
    statusEnd,  \* the first u16 that StatusCode::from_u16 of the build refuses
    raw,        \* the HttpBindingsTemp handed to try_from
    bound,      \* what try_from returned for it
    doc,        \* the raw document handed to the decoder
    decoded,    \* what decoding it returned
    resolved    \* how resolving an operation of the decoded Model ended

resolverVars == <<shapes, model0, pc, op, res, looked, seen>>
bindingVars == <<statusEnd, raw, bound>>
decodeVars == <<doc, decoded, resolved>>
vars == <<resolverVars, bindingVars, decodeVars>>

-----------------------------------------------------------------------------
(* Bounds of the model. *)

\* Longest `errors` vector of an Operation.
MaxErrors == 2

\* Longest method token drawn from TokenAlphabet.
MaxTokenLen == 2

\* Response codes 0..MaxCode are tried.
MaxCode == 1100

\* Longest `errors` array of a decoded document's operation.
MaxDocErrors == 1

\* Longest `errors` vector of the Operations resolved concurrently.
MaxConcurrentErrors == 1

-----------------------------------------------------------------------------
(* The data model: main.rs 47-55, 67-102, 121-124, 140-147, 168-176. *)

\* Shape names that occur as table keys or inside references.
Names == {"A", "B"}

None == [none |-> TRUE]

\* Option<u16>, Option<StatusCode>: the empty or the one-element sequence.
NoCode == <<>>
SomeCode(v) == <<v>>

\* struct ShapeReference { shape: String }
ShapeReference == [shape : Names]

\* enum Shape: the variants that hold references, and one scalar (the other
\* scalars carry no reference and resolve alike).  A nested
\* position holds a ShapeReference, never a Shape.
Shape ==
    [type : {"boolean"}]
    \cup [type : {"list"}, member : ShapeReference]
    \cup [type : {"structure"}, members : [{"m"} -> ShapeReference]]
    \cup [type : {"map"}, key : ShapeReference, value : ShapeReference]

\* The names a shape refers to in its nested positions.
RefsOf(s) ==
    CASE s.type = "list" -> {s.member.shape}
      [] s.type = "structure" -> {s.members[m].shape : m \in DOMAIN s.members}
      [] s.type = "map" -> {s.key.shape, s.value.shape}
      [] OTHER -> {}

\* HashMap<String, Shape>: every table over a subset of Names.
Tables == UNION {[K -> Shape] : K \in SUBSET Names}

\* Method tokens, as sequences of bytes written as one-character strings.
GET == <<"G","E","T">>
POST == <<"P","O","S","T">>
DELETE == <<"D","E","L","E","T","E">>
FETCH == <<"F","E","T","C","H">>

\* struct HttpBindings, already validated.
HttpValues ==
    {[method |-> [kind |-> "standard", bytes |-> POST],
      request_uri |-> "/functions", response_code |-> SomeCode(201)],
     [method |-> [kind |-> "standard", bytes |-> GET],
      request_uri |-> "/functions/{n}", response_code |-> NoCode]}

\* struct Markdown(String)
MarkdownValues == {"Creates a function."}

SeqsUpTo(S, n) == UNION {[1..k -> S] : k \in 0..n}

\* struct Operation
Operation ==
    [name : {"CreateFunction"},
     http : HttpValues,
     input : ShapeReference,
     output : ShapeReference \cup {None},
     errors : SeqsUpTo(ShapeReference, MaxErrors),
     documentation : MarkdownValues]

NoOp == [none |-> TRUE]
NoRes == [none |-> TRUE]

\* The callers that may run resolve at the same time.
Callers == {1, 2}

-----------------------------------------------------------------------------
(* resolve: main.rs 178-191. *)

\* A plausible slip: the clone follows the references nested in the entry
\* and inlines the shapes they name (resolution deeper than one hop).
Inline(t, r) ==
    IF r.shape \in DOMAIN t THEN t[r.shape] ELSE r

ExpandEntry(t, k) ==
    [value |->
        CASE t[k].type = "list" ->
               [type |-> "list", member |-> Inline(t, t[k].member)]
          [] t[k].type = "structure" ->
               [type |-> "structure",
                members |-> [m \in DOMAIN t[k].members |-> Inline(t, t[k].members[m])]]
          [] t[k].type = "map" ->
               [type |-> "map", key |-> Inline(t, t[k].key),
                value |-> Inline(t, t[k].value)]
          [] OTHER -> t[k],
     table |-> t]

\* A plausible slip: the entry is taken out of the table instead of cloned.
RemoveEntry(t, k) ==
    [value |-> t[k], table |-> [x \in DOMAIN t \ {k} |-> t[x]]]

\* shapes[&key].clone() for a key of the table: the value read, and the
\* table as the read leaves it (the table is borrowed immutably).
CloneEntry(t, k) ==
    [value |-> t[k], table |-> t]

\* The struct literal evaluates its fields in the order written; name and
\* http are moved first, then shapes[&op.input.shape] is indexed.
Call(c, ops) ==
    /\ pc[c] = "idle"
    /\ \E o \in ops :
          /\ op' = [op EXCEPT ![c] = o]
          /\ res' = [res EXCEPT ![c] = [name |-> o.name, http |-> o.http]]
    /\ looked' = [looked EXCEPT ![c] = <<>>]
    /\ pc' = [pc EXCEPT ![c] = "input"]
    /\ UNCHANGED <<shapes, model0, seen, bindingVars, decodeVars>>

\* Index on a HashMap panics when the key is absent ("no entry found for
\* key"); the invocation never produces a value.
Panic(c, k) ==
    /\ pc' = [pc EXCEPT ![c] = "panicked"]
    /\ looked' = [looked EXCEPT ![c] = Append(@, k)]
    /\ res' = [res EXCEPT ![c] = NoRes]
    /\ UNCHANGED <<shapes, model0, op, seen, bindingVars, decodeVars>>

\* input: shapes[&op.input.shape].clone()
ResolveInput(c) ==
    /\ pc[c] = "input"
    /\ LET k == op[c].input.shape IN
       IF k \notin DOMAIN shapes
       THEN Panic(c, k)
       ELSE LET e == CloneEntry(shapes, k) IN
            /\ res' = [res EXCEPT ![c] =
                         [name |-> @.name, http |-> @.http, input |-> e.value]]
            /\ shapes' = e.table
            /\ looked' = [looked EXCEPT ![c] = Append(@, k)]
            /\ pc' = [pc EXCEPT ![c] = "output"]
            /\ UNCHANGED <<model0, op, seen, bindingVars, decodeVars>>

\* output: op.output.map(|o| shapes[&o.shape].clone())
ResolveOutput(c) ==
    /\ pc[c] = "output"
    /\ IF op[c].output = None
       THEN /\ res' = [res EXCEPT ![c] =
                         [name |-> @.name, http |-> @.http, input |-> @.input,
                          output |-> None, errors |-> <<>>]]
            /\ pc' = [pc EXCEPT ![c] = "errors"]
            /\ UNCHANGED <<shapes, model0, op, looked, seen, bindingVars, decodeVars>>
       ELSE LET k == op[c].output.shape IN
            IF k \notin DOMAIN shapes
            THEN Panic(c, k)
            ELSE LET e == CloneEntry(shapes, k) IN
                 /\ res' = [res EXCEPT ![c] =
                              [name |-> @.name, http |-> @.http, input |-> @.input,
                               output |-> e.value, errors |-> <<>>]]
                 /\ shapes' = e.table
                 /\ looked' = [looked EXCEPT ![c] = Append(@, k)]
                 /\ pc' = [pc EXCEPT ![c] = "errors"]
                 /\ UNCHANGED <<model0, op, seen, bindingVars, decodeVars>>

\* A plausible slip: the resolved errors are gathered in reverse.
CollectFront(errs, v) ==
    <<v>> \o errs

\* .collect::<Vec<Shape>>(): the next mapped element goes to the end.
Collect(errs, v) ==
    Append(errs, v)

\* errors: op.errors.into_iter().map(|o| shapes[&o.shape].clone()).collect()
\* One step per element, in the vector's order.
ResolveError(c) ==
    /\ pc[c] = "errors"
    /\ Len(res[c].errors) < Len(op[c].errors)
    /\ LET k == op[c].errors[Len(res[c].errors) + 1].shape IN
       IF k \notin DOMAIN shapes
       THEN Panic(c, k)
       ELSE LET e == CloneEntry(shapes, k) IN
            /\ res' = [res EXCEPT ![c].errors = Collect(@, e.value)]
            /\ shapes' = e.table
            /\ looked' = [looked EXCEPT ![c] = Append(@, k)]
            /\ UNCHANGED <<model0, op, pc, seen, bindingVars, decodeVars>>

\* documentation: op.documentation, and the struct is returned.
Finish(c) ==
    /\ pc[c] = "errors"
    /\ Len(res[c].errors) = Len(op[c].errors)
    /\ res' = [res EXCEPT ![c] =
                 [name |-> @.name, http |-> @.http, input |-> @.input,
                  output |-> @.output, errors |-> @.errors,
                  documentation |-> op[c].documentation]]
    /\ pc' = [pc EXCEPT ![c] = "done"]
    /\ UNCHANGED <<shapes, model0, op, looked, seen, bindingVars, decodeVars>>

\* The caller takes the result (or has unwound from the panic) and may call
\* resolve again.
Return(c) ==
    /\ pc[c] \in {"done", "panicked"}
    /\ pc' = [pc EXCEPT ![c] = "idle"]
    /\ op' = [op EXCEPT ![c] = NoOp]
    /\ res' = [res EXCEPT ![c] = NoRes]
    /\ looked' = [looked EXCEPT ![c] = <<>>]
    /\ seen' = [seen EXCEPT ![c] = @ \cup {pc[c]}]
    /\ UNCHANGED <<shapes, model0, bindingVars, decodeVars>>

NoCallers ==
    /\ pc = [c \in Callers |-> "idle"]
    /\ op = [c \in Callers |-> NoOp]
    /\ res = [c \in Callers |-> NoRes]
    /\ looked = [c \in Callers |-> <<>>]
    /\ seen = [c \in Callers |-> {}]

NoBindings ==
    /\ statusEnd = 1000
    /\ raw = None
    /\ bound = None

NoDocument ==
    /\ doc = None
    /\ decoded = None
    /\ resolved = None

Init ==
    /\ shapes \in Tables
    /\ model0 = shapes
    /\ NoCallers
    /\ NoBindings
    /\ NoDocument

\* The references an Operation holds, in the order resolve looks them up.
OwnRefs(o) ==
    <<o.input.shape>>
    \o (IF o.output = None THEN <<>> ELSE <<o.output.shape>>)
    \o [i \in 1..Len(o.errors) |-> o.errors[i].shape]

AllPresent(o, t) ==
    \A i \in 1..Len(OwnRefs(o)) : OwnRefs(o)[i] \in DOMAIN t

\* The first reference, in that order, that the table lacks.
FirstMissing(o, t) ==
    LET r == OwnRefs(o)
        i == CHOOSE j \in 1..Len(r) :
                 /\ r[j] \notin DOMAIN t
                 /\ \A h \in 1..(j - 1) : r[h] \in DOMAIN t
    IN r[i]

\* resolve as a function of its two arguments: the value it returns, or the
\* key whose lookup panics (the first absent one in evaluation order).
resolve(o, t) ==
    IF AllPresent(o, t)
    THEN [ok |-> TRUE,
          value |-> [name |-> o.name,
                     http |-> o.http,
                     input |-> t[o.input.shape],
                     output |-> IF o.output = None THEN None
                                ELSE t[o.output.shape],
                     errors |-> [i \in 1..Len(o.errors) |-> t[o.errors[i].shape]],
                     documentation |-> o.documentation]]
    ELSE [ok |-> FALSE, key |-> FirstMissing(o, t)]

\* One caller: any sequence of resolve calls, one after the other.
Next ==
    \/ Call(1, Operation)
    \/ ResolveInput(1)
    \/ ResolveOutput(1)
    \/ ResolveError(1)
    \/ Finish(1)
    \/ Return(1)

Spec == Init /\ [][Next]_vars

\* Several callers, each resolving one Operation over the same table; their
\* steps interleave freely.
ConcurrentOperation ==
    {o \in Operation :
        Len(o.errors) <= MaxConcurrentErrors /\ o.http.method.bytes = POST}

NextConcurrent ==
    \E c \in Callers :
        \/ Call(c, ConcurrentOperation)
        \/ ResolveInput(c)
        \/ ResolveOutput(c)
        \/ ResolveError(c)
        \/ Finish(c)

SpecConcurrent == Init /\ [][NextConcurrent]_vars

-----------------------------------------------------------------------------
(* HTTP binding validation: main.rs 132-166. *)

\* The bytes short method tokens are drawn from.
TokenAlphabet == {"G", "E", "T", "g", " "}

\* tchar of RFC 7230, the bytes the http crate admits in a method, among
\* the bytes of the model.
MethodChars == {"G", "E", "T", "g", "P", "O", "S", "D", "L", "F", "C", "H",
                "U", "A", "R", "I", "N"}

StandardMethods ==
    {<<"O","P","T","I","O","N","S">>, GET, POST,
     <<"P","U","T">>, DELETE, <<"H","E","A","D">>,
     <<"T","R","A","C","E">>, <<"C","O","N","N","E","C","T">>,
     <<"P","A","T","C","H">>}

\* The tokens this section names, and every short token over TokenAlphabet.
MethodTokens ==
    StandardMethods
    \cup {FETCH, <<>>, <<"G","E"," ","T">>}
    \cup SeqsUpTo(TokenAlphabet, MaxTokenLen)

\* u16 response codes: a range across both limits of the status range, and
\* the largest u16.
ResponseCodes == (0..MaxCode) \cup {65535}

\* Option<u16>
OptionalCodes == {NoCode} \cup {SomeCode(v) : v \in ResponseCodes}

Ok(v) == [ok |-> TRUE, value |-> v]
Err(e) == [ok |-> FALSE, err |-> e]

\* StatusCode::from_u16 of the http crate: a code below 100 or not below
\* the crate's upper limit is InvalidStatusCode.  The limit is 600 in http
\* 0.1 and 1000 from http 0.2 on; the source does not pin the version.
from_u16(src, end) ==
    IF src < 100 \/ src >= end
    THEN Err("InvalidStatusCode")
    ELSE Ok(src)

\* A plausible slip: only the registered methods are let through.
from_bytes_strict(src) ==
    IF src \in StandardMethods
    THEN Ok([kind |-> "standard", bytes |-> src])
    ELSE Err("InvalidMethod")

\* Method::from_bytes of the http crate: the empty slice is InvalidMethod,
\* the nine registered names give their own variants, and any other slice
\* is an extension method when each byte is a token character and
\* InvalidMethod otherwise.  Nothing is upper-cased.
from_bytes(src) ==
    IF Len(src) = 0 THEN Err("InvalidMethod")
    ELSE IF src \in StandardMethods
         THEN Ok([kind |-> "standard", bytes |-> src])
         ELSE IF \A i \in 1..Len(src) : src[i] \in MethodChars
              THEN Ok([kind |-> "extension", bytes |-> src])
              ELSE Err("InvalidMethod")

\* A plausible slip: an invalid code is dropped (`.ok()`) instead of
\* propagated (`?`).
try_from_lenient(value, end) ==
    LET code == IF value.response_code = NoCode THEN NoCode
                ELSE IF from_u16(value.response_code[1], end).ok
                     THEN SomeCode(from_u16(value.response_code[1], end).value)
                     ELSE NoCode
        method == from_bytes(value.method)
    IN IF ~method.ok THEN Err(method.err)
       ELSE Ok([method |-> method.value,
                request_uri |-> value.request_uri,
                response_code |-> code])

\* impl TryFrom<HttpBindingsTemp> for HttpBindings: the code is converted
\* first and its error returned by `?`, then the method likewise.
try_from(value, end) ==
    LET code == IF value.response_code = NoCode THEN Ok(NoCode)
                ELSE LET c == from_u16(value.response_code[1], end)
                     IN IF c.ok THEN Ok(SomeCode(c.value)) ELSE c
        method == from_bytes(value.method)
    IN IF ~code.ok THEN Err(code.err)
       ELSE IF ~method.ok THEN Err(method.err)
            ELSE Ok([method |-> method.value,
                     request_uri |-> value.request_uri,
                     response_code |-> code.value])

\* A raw binding record (struct HttpBindingsTemp) arrives from the decoder.
Receive ==
    /\ raw = None
    /\ \E m \in MethodTokens, u \in {"/functions"}, code \in OptionalCodes :
          raw' = [method |-> m, request_uri |-> u, response_code |-> code]
    /\ UNCHANGED <<resolverVars, decodeVars, statusEnd, bound>>

\* HttpBindings::try_from(raw)
TryFrom ==
    /\ raw # None
    /\ bound = None
    /\ bound' = try_from(raw, statusEnd)
    /\ UNCHANGED <<resolverVars, decodeVars, statusEnd, raw>>

\* The record and its result are dropped.
Drop ==
    /\ bound # None
    /\ raw' = None
    /\ bound' = None
    /\ UNCHANGED <<resolverVars, decodeVars, statusEnd>>

InitBindings ==
    /\ shapes = <<>>
    /\ model0 = shapes
    /\ NoCallers
    /\ statusEnd \in {600, 1000}
    /\ raw = None
    /\ bound = None
    /\ NoDocument

NextBindings ==
    \/ Receive
    \/ TryFrom
    \/ Drop

SpecBindings == InitBindings /\ [][NextBindings]_vars

\* The code part of a record is fine: absent, or valid for from_u16.
CodeAccepted(value) ==
    value.response_code = NoCode
    \/ (100 <= value.response_code[1] /\ value.response_code[1] < statusEnd)

Converted == raw # None /\ bound # None

\* C3, as stated: the conversion rejects the method tokens "FETCH" and ""
\* and accepts "GET", "POST" and "DELETE"; a token that is not a recognized
\* HTTP method makes the conversion fail.
C3_UnrecognizedMethodRejected ==
    Converted =>
        /\ raw.method \in {FETCH, <<>>} => ~bound.ok
        /\ raw.method \notin StandardMethods => ~bound.ok
        /\ (raw.method \in {GET, POST, DELETE} /\ CodeAccepted(raw)) => bound.ok

\* C3, amended: the conversion rejects "" and every token holding a byte
\* that is not a token character, and accepts "GET", "POST" and "DELETE";
\* any other non-empty token of token characters, "FETCH" among them, is
\* accepted as an extension method with its bytes unchanged.
C3_MethodTokens ==
    Converted =>
        /\ raw.method = <<>> => (~bound.ok /\ bound = Err(
              IF CodeAccepted(raw) THEN "InvalidMethod" ELSE "InvalidStatusCode"))
        /\ (\E i \in 1..Len(raw.method) : raw.method[i] \notin MethodChars)
              => ~bound.ok
        /\ (raw.method \in {GET, POST, DELETE} /\ CodeAccepted(raw)) =>
              /\ bound.ok
              /\ bound.value.method = [kind |-> "standard", bytes |-> raw.method]
        /\ (raw.method # <<>> /\ raw.method \notin StandardMethods
            /\ (\A i \in 1..Len(raw.method) : raw.method[i] \in MethodChars)
            /\ CodeAccepted(raw)) =>
              /\ bound.ok
              /\ bound.value.method = [kind |-> "extension", bytes |-> raw.method]

\* "FETCH" with response code 200 has been converted.
C3_Witness ==
    /\ Converted
    /\ raw.method = FETCH
    /\ raw.response_code = SomeCode(200)
    /\ bound.ok

-----------------------------------------------------------------------------
(* The decoder: the serde derives of main.rs 8-55, 67-124, 140-147. *)

\* A plausible slip: an unknown protocol falls back to a default variant
\* (#[serde(other)] or #[serde(default)]).
decode_Protocol_default(str) ==
    CASE str = "rest-json" -> Ok("RestJson")
      [] str = "json" -> Ok("Json")
      [] str = "rest-xml" -> Ok("RestXml")
      [] str = "query" -> Ok("Query")
      [] OTHER -> Ok("Json")

\* enum Protocol: the four renamed variants; serde refuses any other string
\* ("unknown variant").
decode_Protocol(str) ==
    CASE str = "rest-json" -> Ok("RestJson")
      [] str = "json" -> Ok("Json")
      [] str = "rest-xml" -> Ok("RestXml")
      [] str = "query" -> Ok("Query")
      [] OTHER -> Err("metadata.protocol")

\* enum Signature: one renamed variant.
decode_Signature(str) ==
    IF str = "v4" THEN Ok("V4") ELSE Err("metadata.signatureVersion")

\* enum Shape, #[serde(tag = "type")]: the ten renamed tags.
ShapeTags == {"structure", "string", "map", "list", "integer", "long",
              "double", "blob", "boolean", "timestamp"}

\* A raw shape of a document: one of the shapes above under its tag, or an
\* object with a tag outside the set.
RawShape == Shape \cup [type : {"enum-legacy"}]

RawTables == UNION {[K -> RawShape] : K \in SUBSET Names}

\* One shape: the tag picks the variant and the variant's fields are read;
\* a ShapeReference is read as the string it holds, whatever it names.
decode_Shape(r) ==
    IF r.type \in ShapeTags THEN Ok(r) ELSE Err("shapes")

\* The raw http objects of a document's operation.
RawHttp ==
    {[method |-> POST, request_uri |-> "/functions", response_code |-> SomeCode(201)],
     [method |-> <<>>, request_uri |-> "/functions", response_code |-> NoCode]}

\* A raw operation: http is still an HttpBindingsTemp, the references are
\* strings.
RawOperation ==
    [name : {"CreateFunction"},
     http : RawHttp,
     input : ShapeReference,
     output : ShapeReference \cup {None},
     errors : SeqsUpTo(ShapeReference, MaxDocErrors)]

\* A plausible slip: the errors array is not read (#[serde(skip)]).
decode_Operation_no_errors(o, end, md) ==
    LET http == try_from(o.http, end) IN
    IF ~http.ok THEN Err("operations")
    ELSE Ok([name |-> o.name, http |-> http.value, input |-> o.input,
             output |-> o.output, errors |-> <<>>, documentation |-> md])

\* struct Operation: http goes through try_from (#[serde(try_from)]), the
\* references are kept as read, documentation becomes a Markdown (md stands
\* for what html2md::parse_html returns for it).
decode_Operation(o, end, md) ==
    LET http == try_from(o.http, end) IN
    IF ~http.ok THEN Err("operations")
    ELSE Ok([name |-> o.name, http |-> http.value, input |-> o.input,
             output |-> o.output, errors |-> o.errors, documentation |-> md])

\* struct BotocoreModel: every field is decoded and the first error, in the
\* order of the struct's fields, is the result; nothing checks a reference
\* against the keys of `shapes`.
decode(d, end, md) ==
    LET protocol == decode_Protocol(d.metadata.protocol)
        signature == decode_Signature(d.metadata.signatureVersion)
        operation == decode_Operation(d.operations["CreateFunction"], end, md)
        badShapes == {k \in DOMAIN d.shapes : ~decode_Shape(d.shapes[k]).ok}
    IN IF ~protocol.ok THEN protocol
       ELSE IF ~signature.ok THEN signature
       ELSE IF ~operation.ok THEN operation
       ELSE IF badShapes # {} THEN Err("shapes")
       ELSE Ok([metadata |-> [protocol |-> protocol.value,
                              signature_version |-> signature.value],
                operations |-> [n \in {"CreateFunction"} |-> operation.value],
                shapes |-> [k \in DOMAIN d.shapes |-> decode_Shape(d.shapes[k]).value]])

\* The host reads a document.
Load ==
    /\ doc = None
    /\ \E p \in {"rest-json", "json", "rest-xml", "query", "soap"},
          v \in {"v4", "v2"}, o \in RawOperation, t \in RawTables :
          doc' = [metadata |-> [protocol |-> p, signatureVersion |-> v],
                  operations |-> [n \in {"CreateFunction"} |-> o],
                  shapes |-> t]
    /\ UNCHANGED <<resolverVars, bindingVars, decoded, resolved>>

\* serde_json::from_str::<BotocoreModel>(&def)
Decode ==
    /\ doc # None
    /\ decoded = None
    /\ \E md \in MarkdownValues : decoded' = decode(doc, statusEnd, md)
    /\ UNCHANGED <<resolverVars, bindingVars, doc, resolved>>

\* resolve(def.operations["CreateFunction"].clone(), &def.shapes), as the
\* test it_works does after decoding.
ResolveDecoded ==
    /\ decoded # None
    /\ decoded.ok
    /\ resolved = None
    /\ resolved' = resolve(decoded.value.operations["CreateFunction"],
                           decoded.value.shapes)
    /\ UNCHANGED <<resolverVars, bindingVars, doc, decoded>>

\* The document and what was made of it are dropped.
Discard ==
    /\ decoded # None
    /\ doc' = None
    /\ decoded' = None
    /\ resolved' = None
    /\ UNCHANGED <<resolverVars, bindingVars>>

InitDecode ==
    /\ shapes = <<>>
    /\ model0 = shapes
    /\ NoCallers
    /\ NoBindings
    /\ NoDocument

NextDecode ==
    \/ Load
    \/ Decode
    \/ ResolveDecoded
    \/ Discard

SpecDecode == InitDecode /\ [][NextDecode]_vars

Decoded == doc # None /\ decoded # None

\* C7: a document whose protocol is not rest-json, json, rest-xml or query,
\* whose signature version is not v4, or that holds a shape whose type is
\* not one of the ten tags, fails to decode: no Model is produced.  In a
\* Model that is produced the protocol is the variant the document names and
\* every shape of the document is present under its own tag: nothing is
\* dropped or replaced by a default.
C7_ClosedEnumerations ==
    Decoded =>
        /\ doc.metadata.protocol = "soap" => ~decoded.ok
        /\ doc.metadata.signatureVersion # "v4" => ~decoded.ok
        /\ (\E k \in DOMAIN doc.shapes : doc.shapes[k].type = "enum-legacy")
              => ~decoded.ok
        /\ decoded.ok =>
              /\ <<doc.metadata.protocol, decoded.value.metadata.protocol>> \in
                    {<<"rest-json", "RestJson">>, <<"json", "Json">>,
                     <<"rest-xml", "RestXml">>, <<"query", "Query">>}
              /\ decoded.value.metadata.signature_version = "V4"
              /\ DOMAIN decoded.value.shapes = DOMAIN doc.shapes
              /\ \A k \in DOMAIN doc.shapes :
                    /\ doc.shapes[k].type \in ShapeTags
                    /\ decoded.value.shapes[k].type = doc.shapes[k].type

\* A document that is right but for its protocol, "soap", has been refused.
C7_Witness ==
    /\ Decoded
    /\ ~decoded.ok
    /\ doc.metadata.protocol = "soap"
    /\ doc.metadata.signatureVersion = "v4"
    /\ doc.operations["CreateFunction"].http.method = POST
    /\ DOMAIN doc.shapes = Names
    /\ \A k \in DOMAIN doc.shapes : doc.shapes[k].type \in ShapeTags

\* Every reference a decoded shape holds.
NestedRefs(t) ==
    UNION {RefsOf(t[k]) : k \in DOMAIN t}

\* C8, as stated: in every Model the decoder produces, each operation's
\* input, output and error references and every structure member, list
\* member and map key/value reference name a key of the Model's shapes
\* table, so resolving an operation of a decoded Model never meets a missing
\* key.
C8_DecodedReferencesResolve ==
    (Decoded /\ decoded.ok) =>
        /\ AllPresent(decoded.value.operations["CreateFunction"],
                      decoded.value.shapes)
        /\ NestedRefs(decoded.value.shapes) \subseteq DOMAIN decoded.value.shapes
        /\ resolved # None => resolved.ok

\* C8, amended: the decoder keeps every ShapeReference as the document
\* wrote it and checks none against the shapes table, so a decoded Model may
\* hold references that name no key; resolving an operation of a decoded
\* Model meets no missing key exactly when that operation's own input,
\* output and error references all name keys of the table, whatever the
\* references nested in the shapes name.
C8_DecodedReferencesAsWritten ==
    (Decoded /\ decoded.ok) =>
        LET o == decoded.value.operations["CreateFunction"]
            d == doc.operations["CreateFunction"]
            own == {o.input.shape}
                   \cup (IF o.output = None THEN {} ELSE {o.output.shape})
                   \cup {o.errors[i].shape : i \in 1..Len(o.errors)}
        IN /\ o.input = d.input
           /\ o.output = d.output
           /\ o.errors = d.errors
           /\ \A k \in DOMAIN doc.shapes :
                 RefsOf(decoded.value.shapes[k]) = RefsOf(doc.shapes[k])
           /\ resolved # None =>
                 /\ resolved.ok <=> (own \subseteq DOMAIN decoded.value.shapes)
                 /\ ~resolved.ok =>
                       resolved.key \in own \ DOMAIN decoded.value.shapes

\* A document has been decoded into a Model whose operation refers to a
\* shape the table lacks, and resolving that operation has failed on it.
C8_Witness ==
    /\ Decoded
    /\ decoded.ok
    /\ DOMAIN decoded.value.shapes = {"A"}
    /\ decoded.value.operations["CreateFunction"].input.shape = "A"
    /\ decoded.value.operations["CreateFunction"].errors = <<[shape |-> "B"]>>
    /\ resolved = [ok |-> FALSE, key |-> "B"]

-----------------------------------------------------------------------------
(* Properties of resolve, one caller. *)

Running(c) == pc[c] # "idle"

\* C1: when the input reference, the output reference (if any) and every
\* error reference name a key of the table, resolve does not fail, and the
\* ResolvedOperation it returns has input equal to the table entry of the
\* input key, output present exactly when the Operation has one and equal to
\* that key's entry, and errors of the same length as the Operation's, the
\* i-th equal to the entry named by the i-th error reference.
C1_ResolvePresentKeys ==
    \A c \in Callers :
        (Running(c) /\ AllPresent(op[c], model0)) =>
            /\ pc[c] # "panicked"
            /\ pc[c] = "done" =>
                 /\ res[c].input = model0[op[c].input.shape]
                 /\ (res[c].output = None) <=> (op[c].output = None)
                 /\ op[c].output # None =>
                      res[c].output = model0[op[c].output.shape]
                 /\ Len(res[c].errors) = Len(op[c].errors)
                 /\ \A i \in 1..Len(op[c].errors) :
                      res[c].errors[i] = model0[op[c].errors[i].shape]

\* A call with output and two different error references, all present, done.
C1_Witness ==
    /\ pc[1] = "done"
    /\ AllPresent(op[1], model0)
    /\ op[1].output # None
    /\ Len(op[1].errors) = 2
    /\ op[1].errors[1] # op[1].errors[2]
    /\ model0["A"] # model0["B"]

\* C2: when some referenced name is absent from the table, resolve ends by
\* returning an error value (UnresolvedShapeError) that names the missing
\* key; it never aborts.
C2_MissingKeyIsReturnedError ==
    \A c \in Callers :
        (Running(c) /\ ~AllPresent(op[c], model0)) =>
            /\ pc[c] # "panicked"
            /\ pc[c] = "done" =>
                 res[c] = [err |-> "UnresolvedShapeError",
                           key |-> FirstMissing(op[c], model0)]

\* resolve runs to its end: a step that can be taken is taken.
SpecRunning == Init /\ [][Next]_vars /\ WF_vars(Next)

IsPrefix(s, t) ==
    /\ Len(s) <= Len(t)
    /\ \A i \in 1..Len(s) : s[i] = t[i]

ResolvedShapes(r) ==
    {r.input} \cup (IF r.output = None THEN {} ELSE {r.output})
    \cup {r.errors[i] : i \in 1..Len(r.errors)}

\* What C5 says of every state: the keys looked up so far are the first of
\* the operation's own references, in order, and a returned shape is an
\* entry of the table, its nested positions still holding ShapeReferences.
OwnLookupsOnly ==
    \A c \in Callers :
        Running(c) =>
            /\ IsPrefix(looked[c], OwnRefs(op[c]))
            /\ (pc[c] = "done") =>
                 /\ looked[c] = OwnRefs(op[c])
                 /\ ResolvedShapes(res[c]) \subseteq Shape
                 /\ \A s \in ResolvedShapes(res[c]) :
                      \E k \in DOMAIN model0 : s = model0[k]

\* C5: resolve looks up only the operation's own references, each once and
\* in order, and every call ends (with a value or at a missing key) whatever
\* the table holds, cyclic tables included; every shape it returns is the
\* table's entry with its nested references still ShapeReferences (a value
\* of Shape, one hop deep).
C5_OneHopDeep ==
    /\ []OwnLookupsOnly
    /\ (pc[1] = "input") ~> (pc[1] \in {"done", "panicked"})

\* A done call over a table in which A and B refer to each other and B to
\* itself: a transitive and a direct cycle.
C5_Witness ==
    /\ pc[1] = "done"
    /\ DOMAIN model0 = {"A", "B"}
    /\ RefsOf(model0["A"]) = {"B"}
    /\ RefsOf(model0["B"]) = {"A", "B"}
    /\ op[1].input.shape = "A"
    /\ Len(op[1].errors) = 2

\* C6: the name, http bindings and documentation of the ResolvedOperation
\* are those of the source Operation, and the shapes table is the same after
\* any sequence of resolve calls as before it, whether a call ended with a
\* value or by failing.
C6_ResolveFrame ==
    /\ shapes = model0
    /\ \A c \in Callers :
         pc[c] = "done" =>
            /\ res[c].name = op[c].name
            /\ res[c].http = op[c].http
            /\ res[c].documentation = op[c].documentation

\* A failed call has been followed by a call that is done.
C6_Witness ==
    /\ pc[1] = "done"
    /\ DOMAIN model0 = {"A"}
    /\ op[1].http.method.bytes = GET
    /\ seen[1] = {"done", "panicked"}

-----------------------------------------------------------------------------
(* Properties of resolve, several callers. *)

\* C9: under every interleaving of the callers' steps, each invocation ends
\* as it would when run alone on its Operation and the table (a value equal
\* to resolve's, or the same failed lookup), and the shared table is never
\* written.
C9_ConcurrentResolve ==
    /\ shapes = model0
    /\ \A c \in Callers :
         LET alone == resolve(op[c], model0) IN
         /\ pc[c] = "done" => alone.ok /\ res[c] = alone.value
         /\ pc[c] = "panicked" =>
                ~alone.ok /\ looked[c][Len(looked[c])] = alone.key

\* One caller is done while the other, on a different Operation, is in the
\* middle of its lookups.
C9_Witness ==
    /\ pc[1] = "done"
    /\ pc[2] = "errors"
    /\ Len(looked[2]) = 2
    /\ Len(res[2].errors) < Len(op[2].errors)
    /\ op[1] # op[2]

=============================================================================
